---- MODULE Spec2Model ----
(***************************************************************************)
(* The connection and framing core of the TCP message board:               *)
(*   - Server.start's select loop, accept_connection and unregister,       *)
(*   - BufferedReader.read_bytes (worker thread) and BufferedReader.update *)
(*     (event-loop thread), stepped at the granularity at which the two    *)
(*     threads can interleave (lock operations, attribute loads/stores),   *)
(*   - ClientConnection.run and Server.process_request.                    *)
(* A byte is a number 0..255.  The 8-byte big-endian length prefix is kept *)
(* bit-exact.  A JSON payload is scaled down: one payload byte stands for  *)
(* one UTF-8 fragment of the text (see the B... code points below), so a   *)
(* payload of a few bytes can be a whole request.                          *)
(***************************************************************************)
EXTENDS Integers, Sequences, FiniteSets, TLC

\* ------------------------------------------------------------------ bounds
\* Connections the model knows (the listen backlog draws from them).
NumConns == 2
\* The clock (whole seconds) stops advancing at MaxNow.
MaxNow == 2
\* BufferedReader.read_size, scaled down from Server.buffer_size (16 KiB).
read_size == 2
\* read_bytes' buffer_size of client.py, scaled down from 16 KiB.
client_buffer_size == 16
\* Acknowledgment frames in front of a response.
MaxAcks == 2
\* The seconds in which board requests arrive: 0..MaxTime.
MaxTime == 1
\* How many messages load_messages returns at most, scaled down from 100.
MaxListed == 2

Conns == 1..NumConns

\* ------------------------------------------------------- program constants
\* read_bytes(8): the width of a length prefix and of an acknowledgment count.
HeaderLen == 8
\* Server.notify_period = 0.1 s, in tenths of a second.
NotifyPeriodTenths == 1

None == -1

\* ------------------------------------------------------------------- codec
\* Payload code points.  Each stands for a UTF-8 fragment of a JSON text.
BVersion == 1          \* "version": "1.0.0"
BMethodGetBoards == 2  \* "method": "GET_BOARDS"
BList == 3             \* a JSON text that is an array, not an object
BGarbage == 4          \* text that is not JSON
BOldVersion == 5       \* "version": "0.9.0"
BMethodOther == 6      \* "method": "NO_SUCH_METHOD"
BSpace == 32           \* JSON whitespace
BBadUtf8 == 255        \* a byte that is not valid UTF-8

\* Response code points (json.dumps of the response dictionaries).
RSuccessTrue == 16
RSuccessFalse == 17
RBoards == 18          \* "boards": [<the loaded board names>]
RNoVersion == 19       \* "boards": "No protocol version specified"
RBadVersion == 20      \* "boards": "Incompatible protocol version, ..."
RNoMethod == 21        \* "boards": "Invalid Request, no method specified"
RBadMethod == 22       \* "boards": "Invalid Request, invalid method specified"

\* n.to_bytes(w, "big")
RECURSIVE ToBytes(_, _)
ToBytes(x, w) == IF w = 0 THEN <<>> ELSE ToBytes(x \div 256, w - 1) \o <<x % 256>>

\* n.to_bytes(8, "big")
ToBytes8(x) == ToBytes(x, HeaderLen)

\* int.from_bytes(b, "big")
RECURSIVE FromBytes(_)
FromBytes(b) ==
    IF b = <<>> THEN 0
    ELSE 256 * FromBytes(SubSeq(b, 1, Len(b) - 1)) + b[Len(b)]

\* b[:n] and b[n:] of Python (n >= 0)
Take(b, n) == SubSeq(b, 1, IF n < Len(b) THEN n ELSE Len(b))
Drop(b, n) == SubSeq(b, n + 1, Len(b))

IsPrefix(s, t) == Len(s) <= Len(t) /\ s = SubSeq(t, 1, Len(s))

Range(s) == {s[i] : i \in 1..Len(s)}

FieldBytes == {BVersion, BMethodGetBoards, BOldVersion, BMethodOther}

\* json.loads(body.decode()): bytes.decode raises UnicodeDecodeError, json.loads
\* raises JSONDecodeError, otherwise the value is an array or an object (the set
\* of its fields; whitespace is skipped).
Decode(body) ==
    LET text == Range(body) \ {BSpace} IN
    IF \E x \in Range(body) : x >= 128
      THEN [kind |-> "UnicodeDecodeError", fields |-> {}]
    ELSE IF text = {BList}
      THEN [kind |-> "list", fields |-> {}]
    ELSE IF text # {} /\ text \subseteq FieldBytes
      THEN [kind |-> "object", fields |-> text]
    ELSE [kind |-> "JSONDecodeError", fields |-> {}]

\* An encoder that writes nothing for the error responses.
EncodeNoError(response) ==
    IF response = "boards" THEN <<RSuccessTrue, RBoards>> ELSE <<>>

\* json.dumps(response).encode() of the dictionaries process_request returns.
Encode(response) ==
    IF response = "boards" THEN <<RSuccessTrue, RBoards>>
    ELSE IF response = "no_version" THEN <<RSuccessFalse, RNoVersion>>
    ELSE IF response = "bad_version" THEN <<RSuccessFalse, RBadVersion>>
    ELSE IF response = "no_method" THEN <<RSuccessFalse, RNoMethod>>
    ELSE <<RSuccessFalse, RBadMethod>>

\* Server.process_request on a decoded object: <<method, status, response>>.
\* On an array `"version" not in request_body` is true (no such item), so the
\* first branch answers as for a missing version.
process_request(request) ==
    IF BVersion \notin request.fields /\ BOldVersion \notin request.fields
      THEN <<"?", "ERROR", "no_version">>
    ELSE IF BVersion \notin request.fields
      THEN <<"?", "ERROR", "bad_version">>
    ELSE IF BMethodGetBoards \notin request.fields
            /\ BMethodOther \notin request.fields
      THEN <<"?", "ERROR", "no_method">>
    ELSE IF BMethodGetBoards \in request.fields
      THEN <<"GET_BOARDS", "OK", "boards">>
    ELSE <<"?", "ERROR", "bad_method">>

\* request_body["method"] of ClientConnection.run: the value, or the exception.
MethodItem(request) ==
    IF request.kind # "object" THEN "TypeError"
    ELSE IF BMethodGetBoards \in request.fields THEN "GET_BOARDS"
    ELSE IF BMethodOther \in request.fields THEN "NO_SUCH_METHOD"
    ELSE "KeyError"

\* ------------------------------------------------------------ client input
\* What a client puts on the connection: a length prefix and a payload
\* (make_request), or a stream that breaks the framing.
Frame(body) == ToBytes8(Len(body)) \o body

GetBoardsBody == <<BVersion, BMethodGetBoards>>
LongBody == <<BVersion, BMethodGetBoards, BSpace>>

PartialStream == ToBytes8(2) \o <<BVersion>>
\* A whole request followed by the first byte of a second one.
PipelinedStream == Frame(GetBoardsBody) \o ToBytes(0, 1)
ExtraStream == Frame(<<BVersion>>) \o <<BMethodGetBoards>>

\* What the client does once its stream is out: keep the connection open
\* ("stay"), close it ("close"), or reset it ("reset").
Scripts ==
    { <<Frame(GetBoardsBody), "stay">>,
      <<Frame(GetBoardsBody), "close">>,
      <<Frame(GetBoardsBody), "reset">>,
      <<Frame(LongBody), "stay">>,
      <<Frame(<<BVersion>>), "stay">>,
      <<Frame(<<BList>>), "stay">>,
      <<Frame(<<BGarbage>>), "stay">>,
      <<Frame(<<BBadUtf8>>), "stay">>,
      <<Frame(<<BVersion, BMethodOther>>), "stay">>,
      <<Frame(<<BOldVersion, BMethodGetBoards>>), "stay">>,
      <<PartialStream, "stay">>,
      <<PartialStream, "close">>,
      <<PartialStream, "reset">>,
      <<ExtraStream, "stay">>,
      <<PipelinedStream, "stay">> }

\* ------------------------------------------------------------------- state
VARIABLES
    now,            \* datetime.datetime.now().timestamp(), whole seconds
    backlog,        \* connections waiting in the listen queue
    pend,           \* per connection: client bytes the server has not yet recv'd
    peer,           \* per connection: the client's end: "open", "closed", "reset"
    ending,         \* per connection: what the client does after its stream
    registered,     \* connections whose socket is in Server.selector
    sock,           \* per connection: server-side socket "none", "open", "closed"
    buffer,         \* BufferedReader.buffer
    lock_until,     \* BufferedReader.lock_until
    read_lock,      \* BufferedReader.read_lock is locked
    lock,           \* BufferedReader.lock: "free", "worker", "loop"
    last_notified,  \* BufferedReader.last_notified (None or a timestamp)
    wpc,            \* per connection: where its ClientConnection thread is
    rk,             \* which read_bytes call of run is active (1: size, 2: body)
    n,              \* read_bytes' parameter n
    data,           \* read_bytes' local data
    wtmp,           \* the value of self.buffer[n:] before it is stored
    request_body,   \* run's request_body (the bytes of the second read)
    request_method, \* run's request_method
    status,         \* run's status
    response,       \* run's response ("none" for None)
    werr,           \* the exception that ended the worker thread, or "none"
    epc,            \* where the event-loop thread is
    ready,          \* keys select() returned and the for loop has not yet taken
    ecur,           \* the connection whose update is running
    u_read,         \* update's local read
    u_buf,          \* the value of self.buffer loaded by `self.buffer += read`
    u_len,          \* the value of len(self.buffer) update is about to send
    eerr,           \* the exception that ended Server.start, or "none"
    wire,           \* per connection: the calls of socket.send, in order, each
                    \* <<the thread that called, the bytes>>
    log,            \* per connection: the lines write_to_log wrote for it
    received,       \* per connection: all bytes recv returned, in order
    delivered,      \* per connection: all bytes read_bytes returned, in order
    decoded,        \* per connection: how json.loads(body.decode()) ended
    handled,        \* per connection: calls of process_request
    unregs,         \* per connection: calls of Server.unregister
    skipped,        \* per connection: an update met a waiting read and sent no
                    \* acknowledgment, the notify period not having passed
    \* client.py: one make_request and its end of the connection
    mr_pc,          \* where make_request is
    mr_request,     \* make_request's request (the encoded request_info)
    mr_sent,        \* the byte strings make_request passed to s.send
    mr_result,      \* what make_request returned or raised
    cl_n,           \* read_bytes' parameter n
    cl_received,    \* read_bytes' local received
    srv_stream,     \* bytes the server wrote that the client has not yet recv'd
    srv_end,        \* the server's end once its stream is out: "open", "closed"
    srv_body,       \* the body of the data frame the server wrote (<<>>: none)
    cl_taken,       \* how many bytes of the server's stream recv has returned
    cl_due,         \* where the field being read ends in the server's stream
    \* the board directory and the requests made of it
    files,          \* per board directory: file name -> contents
    request_time,   \* the second in which the next request is received
    reply,          \* the response of the last POST_MESSAGE or GET_MESSAGES
    posted          \* <<board, title, content>> of every post answered success

vars == <<now, backlog, pend, peer, ending, registered, sock, buffer, lock_until,
          read_lock, lock, last_notified, wpc, rk, n, data, wtmp, request_body,
          request_method, status, response, werr, epc, ready, ecur, u_read,
          u_buf, u_len, eerr, wire, log, received, delivered, decoded, handled,
          unregs, skipped, mr_pc, mr_request, mr_sent, mr_result, cl_n,
          cl_received, srv_stream, srv_end, srv_body, cl_taken, cl_due, files,
          request_time, reply, posted>>

clientVars == <<pend, peer, ending>>
readerVars == <<buffer, lock_until, read_lock, lock, last_notified>>
runVars == <<rk, n, data, wtmp, request_body, request_method, status, response>>
loopVars == <<epc, ready, ecur, u_read, u_buf, u_len, eerr>>
ghostVars == <<received, delivered, decoded, handled, unregs, skipped>>
requesterVars == <<mr_pc, mr_request, mr_sent, mr_result, cl_n, cl_received,
                   srv_stream, srv_end, srv_body, cl_taken, cl_due>>
boardVars == <<files, request_time, reply, posted>>
sideVars == <<requesterVars, boardVars>>

\* The key of the listening socket in `ready` (connections are 1..NumConns).
ListenKey == 0

\* The state after Server.__init__ and the first lines of Server.start, with
\* the clients in DOMAIN scriptsOf connecting, client c with one of the
\* scripts scriptsOf[c].
InitWith(scriptsOf) ==
    /\ now = 0
    /\ backlog = DOMAIN scriptsOf
    /\ \E script \in [DOMAIN scriptsOf -> UNION {scriptsOf[c] : c \in DOMAIN scriptsOf}] :
         /\ \A c \in DOMAIN scriptsOf : script[c] \in scriptsOf[c]
         /\ pend = [c \in Conns |->
                      IF c \in DOMAIN scriptsOf THEN script[c][1] ELSE <<>>]
         /\ ending = [c \in Conns |->
                        IF c \in DOMAIN scriptsOf THEN script[c][2] ELSE "stay"]
    /\ peer = [c \in Conns |-> "open"]
    /\ registered = {}
    /\ sock = [c \in Conns |-> "none"]
    /\ buffer = [c \in Conns |-> <<>>]
    /\ lock_until = [c \in Conns |-> 0]
    /\ read_lock = [c \in Conns |-> FALSE]
    /\ lock = [c \in Conns |-> "free"]
    /\ last_notified = [c \in Conns |-> None]
    /\ wpc = [c \in Conns |-> "idle"]
    /\ rk = [c \in Conns |-> 1]
    /\ n = [c \in Conns |-> HeaderLen]
    /\ data = [c \in Conns |-> <<>>]
    /\ wtmp = [c \in Conns |-> <<>>]
    /\ request_body = [c \in Conns |-> <<>>]
    /\ request_method = [c \in Conns |-> "none"]
    /\ status = [c \in Conns |-> "none"]
    /\ response = [c \in Conns |-> "none"]
    /\ werr = [c \in Conns |-> "none"]
    /\ epc = "select"
    /\ ready = {}
    /\ ecur = 1
    /\ u_read = <<>>
    /\ u_buf = <<>>
    /\ u_len = 0
    /\ eerr = "none"
    /\ wire = [c \in Conns |-> <<>>]
    /\ log = [c \in Conns |-> <<>>]
    /\ received = [c \in Conns |-> <<>>]
    /\ delivered = [c \in Conns |-> <<>>]
    /\ decoded = [c \in Conns |-> "none"]
    /\ handled = [c \in Conns |-> 0]
    /\ unregs = [c \in Conns |-> 0]
    /\ skipped = [c \in Conns |-> FALSE]

\* The response to a board request: whether it reports success, its messages,
\* and the exception process_request raised instead of returning one.
Reply(method, board, success, messages, raised) ==
    [method |-> method, board |-> board, success |-> success,
     messages |-> messages, raised |-> raised]

NoReply == Reply("none", "none", FALSE, <<>>, "none")

\* No make_request is under way.
RequesterIdle ==
    /\ mr_pc = "idle"
    /\ mr_request = <<>>
    /\ mr_sent = <<>>
    /\ mr_result = "none"
    /\ cl_n = 0
    /\ cl_received = <<>>
    /\ srv_stream = <<>>
    /\ srv_end = "open"
    /\ srv_body = <<>>
    /\ cl_taken = 0
    /\ cl_due = 0

\* No board request is made.
BoardIdle ==
    /\ files = <<>>
    /\ request_time = 0
    /\ reply = NoReply
    /\ posted = {}

Init == InitWith([c \in {1} |-> Scripts]) /\ RequesterIdle /\ BoardIdle

\* ------------------------------------------------------------- environment
\* Wall-clock time passes.
Tick ==
    /\ now < MaxNow
    /\ now' = now + 1
    /\ UNCHANGED <<sideVars, backlog, clientVars, registered, sock, readerVars,
                   wpc, runVars, werr, loopVars, wire, log, ghostVars>>

\* The client, all of its stream received by the server, closes or resets
\* its end of the accepted connection.
ClientEnd(c) ==
    /\ sock[c] # "none"
    /\ peer[c] = "open"
    /\ pend[c] = <<>>
    /\ ending[c] # "stay"
    /\ peer' = [peer EXCEPT ![c] = IF ending[c] = "close" THEN "closed" ELSE "reset"]
    /\ UNCHANGED <<sideVars, now, backlog, pend, ending, registered, sock, readerVars, wpc,
                   runVars, werr, loopVars, wire, log, ghostVars>>

\* The socket selects as readable: bytes to read, end of file, or an error.
Readable(c) == pend[c] # <<>> \/ peer[c] # "open"

\* socket.send raises: the socket was closed (EBADF) or the peer reset it.
SendFails(c) == sock[c] = "closed" \/ peer[c] = "reset"

\* ------------------------------------------------ ClientConnection (worker)
\* A thread dies on an exception run does not catch.
Die(c, exc) ==
    /\ wpc' = [wpc EXCEPT ![c] = "crashed"]
    /\ werr' = [werr EXCEPT ![c] = exc]

\* read_bytes without the test `if n > len(self.buffer)`: the read never
\* waits for update and returns what the buffer holds.
ReadEnterNoWait(c) ==
    /\ wpc[c] = "rb_enter"
    /\ lock[c] = "free"
    /\ lock_until' = [lock_until EXCEPT ![c] = n[c]]
    /\ wpc' = [wpc EXCEPT ![c] = "rb_wait"]
    /\ UNCHANGED <<sideVars, now, backlog, clientVars, registered, sock, buffer,
                   read_lock, lock, last_notified, runVars, werr, loopVars, wire,
                   log, ghostVars>>

\* read_bytes: `with self.lock:`, `self.lock_until = n`, the test of the
\* buffer's length and, when the buffer is long enough, the end of the block.
ReadEnter(c) ==
    /\ wpc[c] = "rb_enter"
    /\ lock[c] = "free"
    /\ lock_until' = [lock_until EXCEPT ![c] = n[c]]
    /\ IF n[c] > Len(buffer[c])
         THEN /\ lock' = [lock EXCEPT ![c] = "worker"]
              /\ wpc' = [wpc EXCEPT ![c] = "rb_acq"]
         ELSE /\ lock' = lock
              /\ wpc' = [wpc EXCEPT ![c] = "rb_wait"]
    /\ UNCHANGED <<sideVars, now, backlog, clientVars, registered, sock, buffer, read_lock,
                   last_notified, runVars, werr, loopVars, wire, log, ghostVars>>

\* read_bytes: `self.read_lock.acquire()` inside the block (it waits while
\* read_lock is locked), the timestamp, and the end of `with self.lock`.
ReadAcquire(c) ==
    /\ wpc[c] = "rb_acq"
    /\ ~read_lock[c]
    /\ read_lock' = [read_lock EXCEPT ![c] = TRUE]
    /\ last_notified' = [last_notified EXCEPT ![c] = now]
    /\ lock' = [lock EXCEPT ![c] = "free"]
    /\ wpc' = [wpc EXCEPT ![c] = "rb_wait"]
    /\ UNCHANGED <<sideVars, now, backlog, clientVars, registered, sock, buffer, lock_until,
                   runVars, werr, loopVars, wire, log, ghostVars>>

\* read_bytes: `with self.read_lock:` waits until read_lock is free, without
\* a timeout, and takes it.
ReadWait(c) ==
    /\ wpc[c] = "rb_wait"
    /\ ~read_lock[c]
    /\ read_lock' = [read_lock EXCEPT ![c] = TRUE]
    /\ wpc' = [wpc EXCEPT ![c] = "rb_clear"]
    /\ UNCHANGED <<sideVars, now, backlog, clientVars, registered, sock, buffer, lock_until,
                   lock, last_notified, runVars, werr, loopVars, wire, log,
                   ghostVars>>

\* read_bytes: `self.last_notified = None`
ReadClear(c) ==
    /\ wpc[c] = "rb_clear"
    /\ last_notified' = [last_notified EXCEPT ![c] = None]
    /\ wpc' = [wpc EXCEPT ![c] = "rb_data"]
    /\ UNCHANGED <<sideVars, now, backlog, clientVars, registered, sock, buffer, lock_until,
                   read_lock, lock, runVars, werr, loopVars, wire, log, ghostVars>>

\* read_bytes: `data = self.buffer[:n]`
ReadData(c) ==
    /\ wpc[c] = "rb_data"
    /\ data' = [data EXCEPT ![c] = Take(buffer[c], n[c])]
    /\ wpc' = [wpc EXCEPT ![c] = "rb_load"]
    /\ UNCHANGED <<sideVars, now, backlog, clientVars, registered, sock, readerVars, rk, n,
                   wtmp, request_body, request_method, status, response, werr,
                   loopVars, wire, log, ghostVars>>

\* read_bytes: the right-hand side of `self.buffer = self.buffer[n:]`
ReadLoad(c) ==
    /\ wpc[c] = "rb_load"
    /\ wtmp' = [wtmp EXCEPT ![c] = Drop(buffer[c], n[c])]
    /\ wpc' = [wpc EXCEPT ![c] = "rb_store"]
    /\ UNCHANGED <<sideVars, now, backlog, clientVars, registered, sock, readerVars, rk, n,
                   data, request_body, request_method, status, response, werr,
                   loopVars, wire, log, ghostVars>>

\* read_bytes: the store of `self.buffer = self.buffer[n:]`
ReadStore(c) ==
    /\ wpc[c] = "rb_store"
    /\ buffer' = [buffer EXCEPT ![c] = wtmp[c]]
    /\ wpc' = [wpc EXCEPT ![c] = "rb_release"]
    /\ UNCHANGED <<sideVars, now, backlog, clientVars, registered, sock, lock_until,
                   read_lock, lock, last_notified, runVars, werr, loopVars, wire,
                   log, ghostVars>>

\* read_bytes without the end of `with self.read_lock`: the delivery section
\* returns and leaves read_lock locked.
ReadReturnKeepsLock(c) ==
    /\ wpc[c] = "rb_release"
    /\ read_lock[c]
    /\ delivered' = [delivered EXCEPT ![c] = @ \o data[c]]
    /\ IF rk[c] = 1
         THEN /\ rk' = [rk EXCEPT ![c] = 2]
              /\ n' = [n EXCEPT ![c] = FromBytes(data[c])]
              /\ wpc' = [wpc EXCEPT ![c] = "rb_enter"]
              /\ UNCHANGED request_body
         ELSE /\ request_body' = [request_body EXCEPT ![c] = data[c]]
              /\ wpc' = [wpc EXCEPT ![c] = "handle"]
              /\ UNCHANGED <<rk, n>>
    /\ UNCHANGED <<sideVars, now, backlog, clientVars, registered, sock, readerVars,
                   data, wtmp, request_method, status, response, werr, loopVars,
                   wire, log, received, decoded, handled, unregs, skipped>>

\* read_bytes: the end of `with self.read_lock` (Lock.release raises
\* RuntimeError on an unlocked lock) and `return data`; run then takes the
\* size out of the first read and starts the second, or keeps the body.
ReadReturn(c) ==
    /\ wpc[c] = "rb_release"
    /\ IF read_lock[c]
         THEN /\ read_lock' = [read_lock EXCEPT ![c] = FALSE]
              /\ delivered' = [delivered EXCEPT ![c] = @ \o data[c]]
              /\ werr' = werr
              /\ IF rk[c] = 1
                   THEN /\ rk' = [rk EXCEPT ![c] = 2]
                        /\ n' = [n EXCEPT ![c] = FromBytes(data[c])]
                        /\ wpc' = [wpc EXCEPT ![c] = "rb_enter"]
                        /\ UNCHANGED request_body
                   ELSE /\ request_body' = [request_body EXCEPT ![c] = data[c]]
                        /\ wpc' = [wpc EXCEPT ![c] = "handle"]
                        /\ UNCHANGED <<rk, n>>
         ELSE /\ Die(c, "RuntimeError")
              /\ UNCHANGED <<read_lock, delivered, rk, n, request_body>>
    /\ UNCHANGED <<sideVars, now, backlog, clientVars, registered, sock, buffer, lock_until,
                   lock, last_notified, data, wtmp, request_method, status,
                   response, loopVars, wire, log, received, decoded, handled,
                   unregs, skipped>>

\* run: decode the body, call process_request, take request_body["method"];
\* only socket.timeout and json.JSONDecodeError are caught.
Handle(c) ==
    /\ wpc[c] = "handle"
    /\ decoded' = [decoded EXCEPT ![c] = Decode(request_body[c]).kind]
    /\ LET request == Decode(request_body[c])
           answer == process_request(request)
       IN IF request.kind = "UnicodeDecodeError"
            THEN /\ Die(c, "UnicodeDecodeError")
                 /\ UNCHANGED <<request_method, status, response, handled>>
          ELSE IF request.kind = "JSONDecodeError"
            THEN /\ request_method' = [request_method EXCEPT ![c] = "?"]
                 /\ status' = [status EXCEPT ![c] = "ERROR"]
                 /\ response' = [response EXCEPT ![c] = "none"]
                 /\ wpc' = [wpc EXCEPT ![c] = "log"]
                 /\ UNCHANGED <<werr, handled>>
          ELSE /\ handled' = [handled EXCEPT ![c] = @ + 1]
               /\ IF MethodItem(request) \in {"TypeError", "KeyError"}
                    THEN /\ Die(c, MethodItem(request))
                         /\ UNCHANGED <<request_method, status, response>>
                    ELSE /\ request_method' =
                              [request_method EXCEPT ![c] = MethodItem(request)]
                         /\ status' = [status EXCEPT ![c] = answer[2]]
                         /\ response' = [response EXCEPT ![c] = answer[3]]
                         /\ wpc' = [wpc EXCEPT ![c] = "log"]
                         /\ werr' = werr
    /\ UNCHANGED <<sideVars, now, backlog, clientVars, registered, sock, readerVars, rk, n,
                   data, wtmp, request_body, loopVars, wire, log, received,
                   delivered, unregs, skipped>>

\* run: write_to_log, then `if response is not None`
WriteLog(c) ==
    /\ wpc[c] = "log"
    /\ log' = [log EXCEPT ![c] = Append(@, <<request_method[c], status[c]>>)]
    /\ wpc' = [wpc EXCEPT ![c] =
                 IF response[c] = "none" THEN "unregister" ELSE "send_len"]
    /\ UNCHANGED <<sideVars, now, backlog, clientVars, registered, sock, readerVars,
                   runVars, werr, loopVars, wire, ghostVars>>

\* run: `self.socket.send(len(response).to_bytes(8, "big"))`
SendLength(c) ==
    /\ wpc[c] = "send_len"
    /\ IF SendFails(c)
         THEN Die(c, "OSError") /\ wire' = wire
         ELSE /\ wire' = [wire EXCEPT
                    ![c] = Append(@, <<"worker", ToBytes8(Len(Encode(response[c])))>>)]
              /\ wpc' = [wpc EXCEPT ![c] = "send_body"]
              /\ werr' = werr
    /\ UNCHANGED <<sideVars, now, backlog, clientVars, registered, sock, readerVars,
                   runVars, loopVars, log, ghostVars>>

\* run: `self.socket.send(response)`
SendBody(c) ==
    /\ wpc[c] = "send_body"
    /\ IF SendFails(c)
         THEN Die(c, "OSError") /\ wire' = wire
         ELSE /\ wire' = [wire EXCEPT
                    ![c] = Append(@, <<"worker", Encode(response[c])>>)]
              /\ wpc' = [wpc EXCEPT ![c] = "unregister"]
              /\ werr' = werr
    /\ UNCHANGED <<sideVars, now, backlog, clientVars, registered, sock, readerVars,
                   runVars, loopVars, log, ghostVars>>

\* run: `self.server.unregister(self)`: selector.unregister and socket.close,
\* executed by the worker thread.
unregister(c) ==
    /\ wpc[c] = "unregister"
    /\ registered' = registered \ {c}
    /\ sock' = [sock EXCEPT ![c] = "closed"]
    /\ unregs' = [unregs EXCEPT ![c] = @ + 1]
    /\ wpc' = [wpc EXCEPT ![c] = "done"]
    /\ UNCHANGED <<sideVars, now, backlog, clientVars, readerVars, runVars, werr, loopVars,
                   wire, log, received, delivered, decoded, handled, skipped>>

\* ------------------------------------------------- Server.start (event loop)
\* An exception leaves the callback: `with self.lock` lets go of the lock and
\* nothing in Server.start catches it, so the select loop ends.
Raise(c, exc) ==
    /\ epc' = "crashed"
    /\ eerr' = exc
    /\ lock' = [lock EXCEPT ![c] = "free"]

\* update ends: the end of `with self.lock`, back to the for loop.
Return(c) ==
    /\ epc' = "dispatch"
    /\ eerr' = eerr
    /\ lock' = [lock EXCEPT ![c] = "free"]

\* `self.selector.select(timeout=.25)` returns the keys that are ready.
Select ==
    /\ epc = "select"
    /\ LET keys == (IF backlog # {} THEN {ListenKey} ELSE {})
                   \cup {c \in registered : Readable(c)}
       IN /\ keys # {}
          /\ ready' = keys
    /\ epc' = "dispatch"
    /\ UNCHANGED <<sideVars, now, backlog, clientVars, registered, sock, readerVars, wpc,
                   runVars, werr, ecur, u_read, u_buf, u_len, eerr, wire, log,
                   ghostVars>>

\* The for loop over the ready keys is exhausted: select again.
SelectAgain ==
    /\ epc = "dispatch"
    /\ ready = {}
    /\ epc' = "select"
    /\ UNCHANGED <<sideVars, now, backlog, clientVars, registered, sock, readerVars, wpc,
                   runVars, werr, ready, ecur, u_read, u_buf, u_len, eerr, wire, log,
                   ghostVars>>

\* accept_connection: accept, a new ClientConnection with its BufferedReader,
\* selector.register, client.start().
accept_connection(c) ==
    /\ epc = "dispatch"
    /\ ListenKey \in ready
    /\ c \in backlog
    /\ ready' = ready \ {ListenKey}
    /\ backlog' = backlog \ {c}
    /\ sock' = [sock EXCEPT ![c] = "open"]
    /\ registered' = registered \cup {c}
    /\ buffer' = [buffer EXCEPT ![c] = <<>>]
    /\ lock_until' = [lock_until EXCEPT ![c] = 0]
    /\ read_lock' = [read_lock EXCEPT ![c] = FALSE]
    /\ lock' = [lock EXCEPT ![c] = "free"]
    /\ last_notified' = [last_notified EXCEPT ![c] = None]
    /\ wpc' = [wpc EXCEPT ![c] = "rb_enter"]
    /\ UNCHANGED <<sideVars, now, clientVars, runVars, werr, epc, ecur, u_read,
                   u_buf, u_len, eerr, wire, log, ghostVars>>

\* The for loop calls a connection's update: `with self.lock:`,
\* `read = self.socket.recv(self.read_size)` and the load of self.buffer for
\* `self.buffer += read`.  recv raises on a closed socket and on a reset one;
\* it returns up to read_size of the bytes that are there, or b'' at the end
\* of the stream.
UpdateRecv(c) ==
    /\ epc = "dispatch"
    /\ c \in ready
    /\ lock[c] = "free"
    /\ ready' = ready \ {c}
    /\ ecur' = c
    /\ IF sock[c] = "closed" \/ peer[c] = "reset"
         THEN /\ Raise(c, IF sock[c] = "closed" THEN "OSError"
                                                ELSE "ConnectionResetError")
              /\ UNCHANGED <<pend, u_read, u_buf, u_len, received>>
         ELSE /\ \/ /\ pend[c] # <<>>
                    /\ \E k \in 1..read_size :
                         /\ k <= Len(pend[c])
                         /\ u_read' = Take(pend[c], k)
                         /\ pend' = [pend EXCEPT ![c] = Drop(@, k)]
                         /\ received' = [received EXCEPT ![c] = @ \o Take(pend[c], k)]
                 \/ /\ pend[c] = <<>>
                    /\ peer[c] = "closed"
                    /\ u_read' = <<>>
                    /\ UNCHANGED <<pend, received>>
              /\ u_buf' = buffer[c]
              /\ u_len' = u_len
              /\ epc' = "u_store"
              /\ eerr' = eerr
              /\ lock' = [lock EXCEPT ![c] = "loop"]
    /\ UNCHANGED <<sideVars, now, backlog, peer, ending, registered, sock, buffer,
                   lock_until, read_lock, last_notified, wpc, runVars, werr, wire,
                   log, delivered, decoded, handled, unregs, skipped>>

\* update: the store of `self.buffer += read`
UpdateStore ==
    /\ epc = "u_store"
    /\ buffer' = [buffer EXCEPT ![ecur] = u_buf \o u_read]
    /\ epc' = "u_locked"
    /\ UNCHANGED <<sideVars, now, backlog, clientVars, registered, sock, lock_until,
                   read_lock, lock, last_notified, wpc, runVars, werr, ready, ecur,
                   u_read, u_buf, u_len, eerr, wire, log, ghostVars>>

\* update: `if self.read_lock.locked():`
UpdateLocked ==
    /\ epc = "u_locked"
    /\ IF read_lock[ecur]
         THEN epc' = "u_notify" /\ UNCHANGED <<eerr, lock>>
         ELSE Return(ecur)
    /\ UNCHANGED <<sideVars, now, backlog, clientVars, registered, sock, buffer, lock_until,
                   read_lock, last_notified, wpc, runVars, werr, ready, ecur,
                   u_read, u_buf, u_len, wire, log, ghostVars>>

\* update: `now - self.last_notified > self.notify_period` (a TypeError when
\* last_notified is None) and `self.last_notified = now`
UpdateNotify ==
    /\ epc = "u_notify"
    /\ IF last_notified[ecur] = None
         THEN Raise(ecur, "TypeError") /\ UNCHANGED <<last_notified, skipped>>
         ELSE IF 10 * (now - last_notified[ecur]) > NotifyPeriodTenths
           THEN /\ last_notified' = [last_notified EXCEPT ![ecur] = now]
                /\ epc' = "u_send1"
                /\ UNCHANGED <<eerr, lock, skipped>>
           ELSE /\ epc' = "u_cmp"
                /\ skipped' = [skipped EXCEPT ![ecur] = TRUE]
                /\ UNCHANGED <<eerr, lock, last_notified>>
    /\ UNCHANGED <<sideVars, now, backlog, clientVars, registered, sock, buffer,
                   lock_until, read_lock, wpc, runVars, werr, ready, ecur, u_read,
                   u_buf, u_len, wire, log, received, delivered, decoded, handled,
                   unregs>>

\* update: `self.socket.send(b'\x00' * 8)`, the acknowledgment sentinel
UpdateSendAck ==
    /\ epc = "u_send1"
    /\ IF SendFails(ecur)
         THEN Raise(ecur, "OSError") /\ wire' = wire
         ELSE /\ wire' = [wire EXCEPT ![ecur] = Append(@, <<"loop", ToBytes8(0)>>)]
              /\ epc' = "u_len"
              /\ UNCHANGED <<eerr, lock>>
    /\ UNCHANGED <<sideVars, now, backlog, clientVars, registered, sock, buffer, lock_until,
                   read_lock, last_notified, wpc, runVars, werr, ready, ecur,
                   u_read, u_buf, u_len, log, ghostVars>>

\* update: the argument of the second send, `len(self.buffer)`, is evaluated
\* before the call of send
UpdateLen ==
    /\ epc = "u_len"
    /\ u_len' = Len(buffer[ecur])
    /\ epc' = "u_send2"
    /\ UNCHANGED <<sideVars, now, backlog, clientVars, registered, sock, readerVars,
                   wpc, runVars, werr, ready, ecur, u_read, u_buf, eerr, wire, log,
                   ghostVars>>

\* update: `self.socket.send((len(self.buffer)).to_bytes(8, "big"))`
UpdateSendCount ==
    /\ epc = "u_send2"
    /\ IF SendFails(ecur)
         THEN Raise(ecur, "OSError") /\ wire' = wire
         ELSE /\ wire' = [wire EXCEPT ![ecur] = Append(@, <<"loop", ToBytes8(u_len)>>)]
              /\ epc' = "u_cmp"
              /\ UNCHANGED <<eerr, lock>>
    /\ UNCHANGED <<sideVars, now, backlog, clientVars, registered, sock, buffer, lock_until,
                   read_lock, last_notified, wpc, runVars, werr, ready, ecur,
                   u_read, u_buf, u_len, log, ghostVars>>

\* update: `if self.lock_until <= len(self.buffer):`
UpdateCompare ==
    /\ epc = "u_cmp"
    /\ IF lock_until[ecur] <= Len(buffer[ecur])
         THEN epc' = "u_release" /\ UNCHANGED <<eerr, lock>>
         ELSE Return(ecur)
    /\ UNCHANGED <<sideVars, now, backlog, clientVars, registered, sock, buffer, lock_until,
                   read_lock, last_notified, wpc, runVars, werr, ready, ecur,
                   u_read, u_buf, u_len, wire, log, ghostVars>>

\* update: `self.read_lock.release()` (RuntimeError on an unlocked lock)
UpdateRelease ==
    /\ epc = "u_release"
    /\ IF read_lock[ecur]
         THEN /\ read_lock' = [read_lock EXCEPT ![ecur] = FALSE]
              /\ Return(ecur)
         ELSE /\ Raise(ecur, "RuntimeError")
              /\ UNCHANGED read_lock
    /\ UNCHANGED <<sideVars, now, backlog, clientVars, registered, sock, buffer, lock_until,
                   last_notified, wpc, runVars, werr, ready, ecur, u_read, u_buf, u_len,
                   wire, log, ghostVars>>

\* ----------------------------------------------------------- specification
WorkerStep(c) ==
    \/ ReadEnter(c) \/ ReadAcquire(c) \/ ReadWait(c) \/ ReadClear(c)
    \/ ReadData(c) \/ ReadLoad(c) \/ ReadStore(c) \/ ReadReturn(c)
    \/ Handle(c) \/ WriteLog(c) \/ SendLength(c) \/ SendBody(c)
    \/ unregister(c)

LoopStep ==
    \/ Select \/ SelectAgain
    \/ \E c \in Conns : accept_connection(c) \/ UpdateRecv(c)
    \/ UpdateStore \/ UpdateLocked \/ UpdateNotify \/ UpdateSendAck \/ UpdateLen
    \/ UpdateSendCount \/ UpdateCompare \/ UpdateRelease

\* Every step but the passing of time.
Progress ==
    \/ LoopStep
    \/ \E c \in Conns : WorkerStep(c) \/ ClientEnd(c)

Next == Tick \/ Progress

Spec == Init /\ [][Next]_vars

\* Two clients connect.  The first sends one byte of its length prefix and
\* then stalls or resets the connection; the second sends a whole request.
StalledScripts == { <<ToBytes(0, 1), "stay">>, <<ToBytes(0, 1), "reset">> }

InitTwo ==
    /\ InitWith([c \in {1, 2} |->
                    IF c = 1 THEN StalledScripts
                             ELSE {<<Frame(GetBoardsBody), "stay">>}])
    /\ RequesterIdle
    /\ BoardIdle

SpecTwo == InitTwo /\ [][Next]_vars

\* One client connects: it sends a whole request and waits, or it closes the
\* connection inside its frame.  Every thread that can take a step takes one
\* in the end, clients close when their script says so, and time passes.
ClosingScripts == { <<Frame(GetBoardsBody), "stay">>, <<PartialStream, "close">> }

InitClosing ==
    /\ InitWith([c \in {1} |-> ClosingScripts])
    /\ RequesterIdle
    /\ BoardIdle

Fairness ==
    /\ WF_vars(Tick)
    /\ WF_vars(LoopStep)
    /\ \A c \in Conns : WF_vars(WorkerStep(c)) /\ WF_vars(ClientEnd(c))

SpecClosing == InitClosing /\ [][Next]_vars /\ Fairness

\* ------------------------------------------------- client.py: make_request
\* The encoded request_info dictionaries make_request is called with.
Requests == {GetBoardsBody, LongBody, <<BVersion>>}

\* What update writes for one acknowledgment: 8 zero bytes and the count.
AckFrame(count) == ToBytes8(0) \o ToBytes8(count)

\* k acknowledgment frames
RECURSIVE AckFrames(_)
AckFrames(k) == IF k = 0 THEN <<>> ELSE AckFrames(k - 1) \o AckFrame(HeaderLen)

\* The names of the responses process_request builds.
Responses == {"boards", "no_version", "bad_version", "no_method", "bad_method"}

\* json.loads(response.decode()) of make_request: the response, or the
\* exception.
DecodeResponse(body) ==
    IF \E r \in Responses : Encode(r) = body
      THEN CHOOSE r \in Responses : Encode(r) = body
      ELSE "JSONDecodeError"

\* What a server writes to one client, each <<stream, body>>: acknowledgment
\* frames and one data frame with that body, or (body <<>>) a stream that ends
\* without a whole data frame: nothing at all, an acknowledgment only, or a
\* data frame cut short.
ServerStreams ==
    { <<AckFrames(k) \o Frame(Encode(r)), Encode(r)>> :
          k \in 0..MaxAcks, r \in {"boards", "no_method"} }
    \cup { <<<<>>, <<>>>>,
           <<AckFrames(1), <<>>>>,
           <<Take(Frame(Encode("boards")), HeaderLen + 1), <<>>>> }

\* make_request has connected and encoded its request; the server's bytes
\* reach the client in the pieces recv returns.
InitRequester ==
    /\ mr_pc = "send_len"
    /\ mr_request \in Requests
    /\ mr_sent = <<>>
    /\ mr_result = "none"
    /\ cl_n = 0
    /\ cl_received = <<>>
    /\ \E s \in ServerStreams : srv_stream = s[1] /\ srv_body = s[2]
    /\ srv_end \in {"open", "closed"}
    /\ cl_taken = 0
    /\ cl_due = 0

\* Everything of the server's connections.
serverVars ==
    <<now, backlog, clientVars, registered, sock, readerVars, wpc, runVars, werr,
      loopVars, wire, log, ghostVars>>

\* make_request calls read_bytes(s, k): read_bytes' first lines.
read_bytes(k) ==
    /\ cl_n' = k
    /\ cl_received' = <<>>
    /\ cl_due' = cl_taken + k

\* `s.send(request_length.to_bytes(8, "big"))`
ClientSendLength ==
    /\ mr_pc = "send_len"
    /\ mr_sent' = Append(mr_sent, ToBytes8(Len(mr_request)))
    /\ mr_pc' = "send_body"
    /\ UNCHANGED <<mr_request, mr_result, cl_n, cl_received, srv_stream, srv_end,
                   srv_body, cl_taken, cl_due, serverVars, boardVars>>

\* `s.send(request)` and the call of read_bytes(s, 8) for the response size
ClientSendRequest ==
    /\ mr_pc = "send_body"
    /\ mr_sent' = Append(mr_sent, mr_request)
    /\ mr_pc' = "read_size"
    /\ read_bytes(HeaderLen)
    /\ UNCHANGED <<mr_request, mr_result, srv_stream, srv_end, srv_body, cl_taken,
                   serverVars, boardVars>>

\* One turn of read_bytes' loop, `len(received) != n` (`buffer is not None`
\* is always true): `buffer = client_socket.recv(min(buffer_size, n))` and
\* `received += buffer`.  recv returns some of the bytes that are there; at
\* the end of a closed stream it returns b''; on an open connection with
\* nothing to come it raises socket.timeout, which make_request turns into a
\* ClientException.
ClientRecv ==
    /\ mr_pc \in {"read_size", "read_count", "read_body"}
    /\ Len(cl_received) # cl_n
    /\ \/ /\ srv_stream # <<>>
          /\ \E k \in 1..client_buffer_size :
               /\ k <= cl_n
               /\ k <= Len(srv_stream)
               /\ cl_received' = cl_received \o Take(srv_stream, k)
               /\ srv_stream' = Drop(srv_stream, k)
               /\ cl_taken' = cl_taken + k
          /\ UNCHANGED <<mr_pc, mr_result>>
       \/ /\ srv_stream = <<>>
          /\ srv_end = "closed"
          /\ cl_received' = cl_received \o <<>>
          /\ UNCHANGED <<mr_pc, mr_result, srv_stream, cl_taken>>
       \/ /\ srv_stream = <<>>
          /\ srv_end = "open"
          /\ mr_pc' = "failed"
          /\ mr_result' = "The connection with the server timed out"
          /\ UNCHANGED <<cl_received, srv_stream, cl_taken>>
    /\ UNCHANGED <<mr_request, mr_sent, cl_n, srv_end, srv_body, cl_due,
                   serverVars, boardVars>>

\* read_bytes' loop ends, `len(received) == n`, and it returns received;
\* make_request goes on: a size of 0 announces an acknowledgment count, any
\* other size the body; after a count comes the next size; the body is
\* decoded and returned (a JSONDecodeError becomes a ClientException).
ClientReadReturn ==
    /\ mr_pc \in {"read_size", "read_count", "read_body"}
    /\ Len(cl_received) = cl_n
    /\ IF mr_pc = "read_size"
         THEN /\ IF FromBytes(cl_received) = 0
                   THEN mr_pc' = "read_count" /\ read_bytes(HeaderLen)
                   ELSE mr_pc' = "read_body" /\ read_bytes(FromBytes(cl_received))
              /\ UNCHANGED mr_result
         ELSE IF mr_pc = "read_count"
           THEN /\ mr_pc' = "read_size"
                /\ read_bytes(HeaderLen)
                /\ UNCHANGED mr_result
           ELSE /\ mr_pc' = IF DecodeResponse(cl_received) = "JSONDecodeError"
                               THEN "failed" ELSE "returned"
                /\ mr_result' = IF DecodeResponse(cl_received) = "JSONDecodeError"
                                   THEN "Server sent malformed message"
                                   ELSE DecodeResponse(cl_received)
                /\ UNCHANGED <<cl_n, cl_received, cl_due>>
    /\ UNCHANGED <<mr_request, mr_sent, srv_stream, srv_end, srv_body, cl_taken,
                   serverVars, boardVars>>

ClientNext ==
    \/ ClientSendLength
    \/ ClientSendRequest
    \/ ClientRecv
    \/ ClientReadReturn

InitClient ==
    /\ InitWith(<<>>)
    /\ InitRequester
    /\ BoardIdle

SpecClient == InitClient /\ [][ClientNext]_vars

\* ------------------------------- POST_MESSAGE, GET_MESSAGES and the boards
\* A string is the sequence of its characters' code points.
CDash == 45
CUnderscore == 95
CSpace == 32
CLetterH == 72
CLetterI == 105
CDigit0 == 48

\* str.replace(old, new) for one-character old and new
Replace(s, old, new) == [i \in 1..Len(s) |-> IF s[i] = old THEN new ELSE s[i]]

\* str.split(sep): the pieces between the occurrences of sep
RECURSIVE Split(_, _)
Split(s, sep) ==
    IF \A i \in 1..Len(s) : s[i] # sep
      THEN <<s>>
      ELSE LET i == CHOOSE i \in 1..Len(s) :
                        s[i] = sep /\ \A j \in 1..(i - 1) : s[j] # sep
           IN <<SubSeq(s, 1, i - 1)>> \o Split(SubSeq(s, i + 1, Len(s)), sep)

\* a < b for strings (by code points, a proper prefix first)
RECURSIVE Less(_, _)
Less(a, b) ==
    IF b = <<>> THEN FALSE
    ELSE IF a = <<>> THEN TRUE
    ELSE IF Head(a) # Head(b) THEN Head(a) < Head(b)
    ELSE Less(Tail(a), Tail(b))

\* list(sorted(names, reverse=True))
RECURSIVE SortedReverse(_)
SortedReverse(names) ==
    IF names = {} THEN <<>>
    ELSE LET top == CHOOSE x \in names : \A y \in names \ {x} : Less(y, x)
         IN <<top>> \o SortedReverse(names \ {top})

\* request_time.strftime("%Y%m%d-%H%M%S"): the date, a dash, the time of day
\* (here one digit each, the date fixed and the time the second of the
\* request).
Stamp(time) == <<CDigit0, CDash, CDigit0 + time>>

\* The board directories of the server, and the boards requests name.
Boards == {"general"}
RequestBoards == {"general", "nowhere"}

\* The titles and contents clients post: "Hi" and "H-i"; "Hello" and "Bye".
Titles == { <<CLetterH, CLetterI>>, <<CLetterH, CDash, CLetterI>> }
Contents == {"Hello", "Bye"}

\* The server starts with its board directories empty.
InitBoard ==
    /\ files = [b \in Boards |-> <<>>]
    /\ request_time = 0
    /\ reply = NoReply
    /\ posted = {}

\* The clock of the requests moves on by a second.
BoardTick ==
    /\ request_time < MaxTime
    /\ request_time' = request_time + 1
    /\ UNCHANGED <<files, reply, posted, serverVars, requesterVars>>

\* process_request, method POST_MESSAGE with its three arguments, and
\* write_message_to_file: a board that is no directory is answered with an
\* error; otherwise the content is written to the file named after the
\* second of the request and the title (an existing file is overwritten).
PostMessage(board, title, content) ==
    /\ IF board \notin Boards
         THEN /\ reply' = Reply("POST_MESSAGE", board, FALSE, <<>>, "none")
              /\ UNCHANGED <<files, posted>>
         ELSE LET file_name ==
                      Stamp(request_time) \o <<CDash>>
                          \o Replace(title, CSpace, CUnderscore)
                  names == DOMAIN files[board] \cup {file_name}
              IN /\ files' = [files EXCEPT ![board] =
                                 [f \in names |->
                                     IF f = file_name THEN content ELSE @[f]]]
                 /\ reply' = Reply("POST_MESSAGE", board, TRUE, <<>>, "none")
                 /\ posted' = posted \cup {<<board, title, content>>}
    /\ UNCHANGED <<request_time, serverVars, requesterVars>>

\* load_messages: the MaxListed last file names in reverse order, each split
\* at its dashes into date, time and title.
Listed(board) ==
    Take(SortedReverse(DOMAIN files[board]), MaxListed)

load_messages(board) ==
    [i \in 1..Len(Listed(board)) |->
        [date |-> Split(Listed(board)[i], CDash)[1],
         time |-> Split(Listed(board)[i], CDash)[2],
         title |-> Replace(Split(Listed(board)[i], CDash)[3], CUnderscore, CSpace),
         contents |-> files[board][Listed(board)[i]]]]

\* process_request, method GET_MESSAGES: a missing board (FileNotFoundError)
\* is answered with an error; a file name that does not split into three
\* raises ServerException, which nothing catches; otherwise the messages.
GetMessages(board) ==
    /\ reply' =
          IF board \notin Boards
            THEN Reply("GET_MESSAGES", board, FALSE, <<>>, "none")
          ELSE IF \E i \in 1..Len(Listed(board)) :
                     Len(Split(Listed(board)[i], CDash)) # 3
            THEN Reply("GET_MESSAGES", board, FALSE, <<>>, "ServerException")
          ELSE Reply("GET_MESSAGES", board, TRUE, load_messages(board), "none")
    /\ UNCHANGED <<files, request_time, posted, serverVars, requesterVars>>

BoardNext ==
    \/ BoardTick
    \/ \E board \in RequestBoards, title \in Titles, content \in Contents :
          PostMessage(board, title, content)
    \/ \E board \in RequestBoards : GetMessages(board)

InitBoardOnly ==
    /\ InitWith(<<>>)
    /\ RequesterIdle
    /\ InitBoard

SpecBoard == InitBoardOnly /\ [][BoardNext]_vars

\* ------------------------------------------------------------------ claims
\* The worker thread has ended: run returned, or an exception ended it.
Ended(c) == wpc[c] \in {"done", "crashed"}

\* The worker waits in `with self.read_lock` for update to release read_lock.
Blocked(c) == wpc[c] = "rb_wait" /\ read_lock[c]

\* The bytes the server has passed to socket.send, in order.
RECURSIVE Flatten(_)
Flatten(sends) ==
    IF sends = <<>> THEN <<>> ELSE Head(sends)[2] \o Flatten(Tail(sends))

\* What make_request is left with once it has consumed the acknowledgment
\* frames (8 zero bytes and an 8-byte count) at the head of the stream.
RECURSIVE SkipAcks(_)
SkipAcks(b) ==
    IF Len(b) >= 2 * HeaderLen /\ Take(b, HeaderLen) = ToBytes8(0)
      THEN SkipAcks(Drop(b, 2 * HeaderLen))
      ELSE b

ResponseBytes(c) == SkipAcks(Flatten(wire[c]))

\* The calls of socket.send one thread made on the connection, in order.
SendsBy(c, thread) == SelectSeq(wire[c], LAMBDA s : s[1] = thread)

\* C1: on every connection the bytes returned by the successive read_bytes
\* calls, concatenated, are a prefix of the bytes recv returned to update, in
\* order: nothing is lost, duplicated or reordered.
C1_ReadsPrefixOfReceived ==
    \A c \in Conns : IsPrefix(delivered[c], received[c])

\* C2: read_bytes(n) hands over exactly n bytes, the first n of the buffer, and
\* leaves the rest buffered: whenever neither a slice nor an append is half
\* done, what was returned so far followed by what is buffered is exactly what
\* was received.
C2_ExactlyNAndSurplusKept ==
    \A c \in Conns :
        /\ wpc[c] \in {"rb_load", "rb_store", "rb_release"} => Len(data[c]) = n[c]
        /\ ( /\ wpc[c] \notin {"rb_release", "crashed"}
             /\ ~(epc = "u_store" /\ ecur = c) )
           => delivered[c] \o buffer[c] = received[c]

\* C3: a read_bytes call whose bytes never arrive is ended by the timeout: no
\* state has a worker blocked in read_bytes, with the select loop running and
\* every received byte still returned or buffered, while the only thing that
\* can still happen is that time passes.
C3_BlockedReadTimesOut ==
    \A c \in Conns :
        (Blocked(c) /\ eerr = "none" /\ delivered[c] \o buffer[c] = received[c])
        => ENABLED Progress

\* C4: no wake-up is lost: whenever a worker waits on read_lock although the
\* buffer holds at least lock_until bytes, an update of its connection is
\* under way, past its append, that will release read_lock.
C4_NoLostWakeup ==
    \A c \in Conns :
        (Blocked(c) /\ lock_until[c] <= Len(buffer[c]))
        => ( /\ ecur = c
             /\ epc \in {"u_locked", "u_notify", "u_send1", "u_len", "u_send2",
                         "u_cmp", "u_release"} )

\* C5: no exception leaves a callback and ends the select loop of Server.start.
C5_LoopNeverEnds == epc # "crashed"

\* C6: a client that sent exactly one well-formed GET_BOARDS frame and keeps
\* the connection open is answered: once its worker has ended, the bytes
\* written to it are acknowledgment frames followed by exactly one response
\* frame, the encoded {success: true, boards: ...}.
C6_GetBoardsAnswered ==
    \A c \in Conns :
        ( /\ Ended(c)
          /\ ending[c] = "stay"
          /\ pend[c] = <<>>
          /\ received[c] \in {Frame(GetBoardsBody), Frame(LongBody)} )
        => ResponseBytes(c) = Frame(Encode("boards"))

\* C7: connections are independent: the select loop is never ended by one
\* connection's callback while another accepted connection still has bytes
\* waiting to be delivered to its reader.
C7_ConnectionsIndependent ==
    \A c \in Conns : \A d \in Conns \ {c} :
        (epc = "crashed" /\ ecur = c) => ~(sock[d] = "open" /\ pend[d] # <<>>)

\* C8: once the worker thread of a connection has ended, having got as far
\* as decoding its payload, Server.unregister has been called for it exactly
\* once: its socket is out of the selector and closed.
C8_EndsClosedAndUnregistered ==
    \A c \in Conns :
        (Ended(c) /\ decoded[c] # "none")
        => (c \notin registered /\ sock[c] = "closed" /\ unregs[c] = 1)

\* C9: a request that decodes to an object with the server's version and no
\* method is answered with the "no method specified" response frame, and one
\* log line with method "?" and status "ERROR" is written for it.
C9_NoMethodAnswered ==
    \A c \in Conns :
        ( /\ Ended(c)
          /\ decoded[c] = "object"
          /\ MethodItem(Decode(request_body[c])) = "KeyError"
          /\ BVersion \in Decode(request_body[c]).fields )
        => ( /\ ResponseBytes(c) = Frame(Encode("no_method"))
             /\ log[c] = << <<"?", "ERROR">> >> )

\* C10: when the payload cannot be decoded (not UTF-8, or not JSON) the worker
\* sends no response bytes, writes one log line with method "?" and status
\* "ERROR", does not call the request handler, and tears the connection down.
C10_UndecodableLoggedAndTornDown ==
    \A c \in Conns :
        (Ended(c) /\ decoded[c] \in {"UnicodeDecodeError", "JSONDecodeError"})
        => ( /\ ResponseBytes(c) = <<>>
             /\ log[c] = << <<"?", "ERROR">> >>
             /\ handled[c] = 0
             /\ c \notin registered
             /\ sock[c] = "closed" )

\* The server has not received a whole request frame on the connection.
FrameIncomplete(c) ==
    \/ Len(received[c]) < HeaderLen
    \/ Len(received[c]) < HeaderLen + FromBytes(Take(received[c], HeaderLen))

\* update's recv has just returned b'' (the peer closed) inside the frame.
EofInsideFrame(c) ==
    epc = "u_store" /\ ecur = c /\ u_read = <<>> /\ FrameIncomplete(c)

\* C11: when update's recv returns zero bytes before the request frame is
\* complete, the connection is in the end unregistered from the selector and
\* closed (so that its worker is no longer blocked and the loop no longer
\* dispatches the socket).
C11_PeerClosedTornDown ==
    \A c \in Conns :
        EofInsideFrame(c) ~> (c \notin registered /\ sock[c] = "closed")

\* C14: the two sends of a frame are never parted by a send of the other
\* thread: on every connection, a thread's first send of a frame (its 1st,
\* 3rd, ... send) is followed on the wire by a send of the same thread.
C14_NoInterleavedWrites ==
    \A c \in Conns : \A i \in 1..(Len(wire[c]) - 1) :
        LET thread == wire[c][i][1]
            before == SelectSeq(SubSeq(wire[c], 1, i), LAMBDA s : s[1] = thread)
        IN Len(before) % 2 = 1 => wire[c][i + 1][1] = thread

\* C15: the selector's registration table is changed only by steps of the
\* thread that runs Server.start's select loop.
C15_SelectorMutatedByLoopOnly ==
    [][registered' # registered => LoopStep]_vars

\* C16: the count an acknowledgment frame carries is at most the number of
\* bytes the connection's buffer holds when the frame is sent.
C16_AckCountAtMostBuffered ==
    [][(epc = "u_send2" /\ wire' # wire) => u_len <= Len(buffer[ecur])]_vars

\* The counts of the acknowledgment frames update has written.
AckCounts(c) ==
    [k \in 1..(Len(SendsBy(c, "loop")) \div 2) |->
        FromBytes(SendsBy(c, "loop")[2 * k][2])]

\* C17: on a connection whose peer is there, where every update that met a
\* waiting read sent an acknowledgment, the counts of successive acknowledgment
\* frames are strictly increasing (looked at while the worker waits for the
\* payload, so that every frame written so far is an acknowledgment).
C17_AckCountsIncrease ==
    \A c \in Conns :
        (~skipped[c] /\ peer[c] = "open" /\ Blocked(c) /\ rk[c] = 2)
        => \A k \in 1..(Len(AckCounts(c)) - 1) : AckCounts(c)[k] < AckCounts(c)[k + 1]

\* C19: on every connection process_request is called at most once, and only
\* when the reads have handed the worker a whole frame (the length prefix and
\* that many payload bytes); the worker writes at most one response frame, and
\* only for a handled request.
C19_OneRequestPerConnection ==
    \A c \in Conns :
        /\ handled[c] <= 1
        /\ handled[c] = 1 => delivered[c] = Frame(request_body[c])
        /\ Len(SendsBy(c, "worker")) <= 2
        /\ SendsBy(c, "worker") # <<>> => handled[c] = 1

\* A client sent a whole request and went on to send a second one: the first
\* was handled and answered, the worker has ended, and the bytes that follow
\* the first frame were received and not handled.
C19_Witness ==
    \E c \in Conns :
        /\ wpc[c] = "done"
        /\ received[c] = PipelinedStream
        /\ handled[c] = 1
        /\ Len(SendsBy(c, "worker")) = 2

\* C12: on a stream of acknowledgment frames and one data frame, however recv
\* splits it, read_bytes never takes bytes beyond the end of the field it
\* reads, and what make_request returns is the decoding of the frame's body,
\* the whole stream consumed.
C12_ClientFraming ==
    srv_body # <<>>
    => /\ cl_taken <= cl_due
       /\ mr_pc = "returned"
            => (mr_result = DecodeResponse(srv_body) /\ srv_stream = <<>>)

\* C13: make_request terminates: as long as it has neither returned nor
\* raised, it has a step to take that changes its state.
C13_MakeRequestTerminates ==
    mr_pc \in {"idle", "returned", "failed"} \/ ENABLED <<ClientNext>>_vars

C18_PostedMessageListed ==
    reply.method = "GET_MESSAGES"
    => \A p \in posted :
          p[1] = reply.board
          => /\ reply.success
             /\ \E i \in 1..Len(reply.messages) :
                   /\ reply.messages[i].title = p[2]
                   /\ reply.messages[i].contents = p[3]

\* The select loop has called update on the connection and waits for
\* self.lock in `with self.lock`.
UpdateWaitsForLock(c) == epc = "dispatch" /\ c \in ready /\ lock[c] # "free"

\* C21: the worker holds self.lock only at the read_lock.acquire() inside
\* `with self.lock`, and there read_lock is free: the acquire does not wait,
\* the worker's next step lets go of self.lock, and an update that waits for
\* self.lock is not in a deadlock with the worker.
C21_WorkerNeverBlocksHoldingLock ==
    \A c \in Conns :
        /\ lock[c] = "worker" =>
              /\ wpc[c] = "rb_acq"
              /\ ~read_lock[c]
              /\ ENABLED <<ReadAcquire(c)>>_vars
        /\ wpc[c] = "rb_acq" => lock[c] = "worker"
        /\ UpdateWaitsForLock(c) => lock[c] = "worker"

\* The worker is at read_lock.acquire() of its second read, after read_lock
\* was handed over for the first one, and the loop's update waits for
\* self.lock.
C21_Witness ==
    \E c \in Conns :
        /\ wpc[c] = "rb_acq"
        /\ rk[c] = 2
        /\ UpdateWaitsForLock(c)

\* C22: update writes the sends of an acknowledgment frame on a connection
\* only while the connection's worker is inside read_bytes and waits in
\* `with self.read_lock` for the bytes it asked for: never when no read is in
\* progress, never once the worker has entered the delivery section, never
\* once the worker writes its response.
C22_AckOnlyWhileReadWaits ==
    [][(epc \in {"u_send1", "u_send2"} /\ wire' # wire) => Blocked(ecur)]_vars

\* run is past its two read_bytes calls: no read is outstanding.
ReadsOver(c) ==
    wpc[c] \in {"handle", "log", "send_len", "send_body", "unregister", "done"}

\* C23: while no read_bytes call is outstanding on a connection no target
\* length is set (lock_until has the value of the constructor, 0), and update
\* does not reach its comparison of the buffer with lock_until then.
C23_TargetClearedWithDelivery ==
    \A c \in Conns :
        ReadsOver(c) =>
            /\ lock_until[c] = 0
            /\ ~(epc = "u_cmp" /\ ecur = c)

\* C24: a connection's buffer gets shorter only in the step that ends a
\* read_bytes(n) call's removal (the store of `self.buffer = self.buffer[n:]`),
\* and that step takes exactly the first n bytes of the buffer and nothing
\* else; no other step, and no step while the read still waits, removes bytes.
C24_BufferShrinksOnlyOnRead ==
    [][\A c \in Conns :
          /\ Len(buffer'[c]) < Len(buffer[c]) => wpc[c] = "rb_store"
          /\ (wpc[c] = "rb_store" /\ wpc'[c] = "rb_release") =>
                /\ Len(buffer[c]) >= n[c]
                /\ buffer'[c] = Drop(buffer[c], n[c])]_vars

\* The worker holds read_lock inside `with self.read_lock`, its delivery
\* section.
InDelivery(c) == wpc[c] \in {"rb_clear", "rb_data", "rb_load", "rb_store", "rb_release"}

\* C25: update's read_lock.release() is executed only while the connection's
\* worker waits in `with self.read_lock` with read_lock locked, never while
\* the worker is inside its delivery section; and no release, of update or of
\* the end of the worker's `with self.read_lock`, meets an unlocked read_lock.
C25_ReadLockHandOff ==
    \A c \in Conns :
        /\ (epc = "u_release" /\ ecur = c) => (Blocked(c) /\ ~InDelivery(c))
        /\ wpc[c] = "rb_release" => read_lock[c]
        /\ werr[c] # "RuntimeError"
        /\ eerr # "RuntimeError"

\* C26: in every state in which read_lock is locked, last_notified holds a
\* timestamp, so that the subtraction in update, evaluated after update saw
\* read_lock locked, does not meet None: on the waiting path, on the fast path
\* of read_bytes and after the worker has been woken.
C26_LockedImpliesNotified ==
    \A c \in Conns :
        /\ read_lock[c] => last_notified[c] # None
        /\ (epc = "u_notify" /\ ecur = c) => last_notified[c] # None

\* C27: every call of a connection's update by the select loop is made while
\* the connection is registered with the selector and its socket is open:
\* update never runs after the worker's Server.unregister has unregistered and
\* closed the socket.
C27_UpdateOnOpenSocket ==
    [][\A c \in Conns :
          UpdateRecv(c) => (c \in registered /\ sock[c] = "open")]_vars

====
